---------------------------- MODULE Spec2Model ----------------------------
(***************************************************************************)
(* OverWatch: the alert pipeline of overwatch/alerts/manager.py            *)
(* (AlertManager: threshold evaluation, per-kind cooldown, history,        *)
(* handler dispatch, the thresholds.json it loads and saves), the          *)
(* subscriber registry of overwatch/api/websocket.py (ConnectionManager,   *)
(* websocket_endpoint), and the monitoring loops of overwatch/ui/          *)
(* dashboard.py (Dashboard.run) and monitor_with_alerts.py (main).         *)
(*                                                                         *)
(* Python dicts are functions with a partial domain; an absent key is a    *)
(* key outside DOMAIN.  Time is in whole seconds.  Every datetime.now()    *)
(* read by _trigger_alert is an input of the operation that makes it.      *)
(***************************************************************************)
EXTENDS Integers, Sequences, FiniteSets, TLC

VARIABLES
    thresholds,         \* AlertManager.thresholds
    alert_handlers,     \* AlertManager.alert_handlers (list, registration order)
    alert_history,      \* AlertManager.alert_history (list of records)
    last_alerts,        \* AlertManager.last_alerts (kind -> datetime)
    call,               \* the last AlertManager operation and what it did
    active_connections, \* ConnectionManager.active_connections (set)
    endpoint,           \* where the websocket_endpoint task of each websocket is
    broadcast,          \* the frame of the running or last ConnectionManager.broadcast
    config_file,        \* the thresholds.json at AlertManager.config_path
    loop,               \* the monitoring loop: its program, where it is, its last tick
    loader              \* the PluginLoader: its directory, plugins, last operation

alertVars == <<thresholds, alert_handlers, alert_history, last_alerts, call>>

registryVars == <<active_connections, endpoint, broadcast>>

loopVars == <<config_file, loop>>

loaderVars == <<loader>>

vars == <<thresholds, alert_handlers, alert_history, last_alerts, call,
          active_connections, endpoint, broadcast, config_file, loop, loader>>

-----------------------------------------------------------------------------
(* Bounds of the model *)

MaxHistory == 2         \* operations that would grow the history past this are cut
MaxSockets == 3         \* websockets that connect in a run
MaxShown == 6           \* the longest history of the runs that watch the totals

(* Program constants *)

PanelLimit == 5         \* get_alert_history(limit=5) of the dashboard's alerts panel
cooldown_period == 300  \* timedelta(minutes=5), in seconds
DefaultLimit == 10      \* get_alert_history(limit=10)

-----------------------------------------------------------------------------
(* Python values *)

EmptyDict == [k \in {} |-> 0]

Get(d, key, default) == IF key \in DOMAIN d THEN d[key] ELSE default

Put(d, key, value) == [k \in DOMAIN d \cup {key} |-> IF k = key THEN value ELSE d[k]]

Digit(n) == CASE n = 0 -> "0" [] n = 1 -> "1" [] n = 2 -> "2" [] n = 3 -> "3"
              [] n = 4 -> "4" [] n = 5 -> "5" [] n = 6 -> "6" [] n = 7 -> "7"
              [] n = 8 -> "8" [] n = 9 -> "9"

RECURSIVE Str(_)
\* str(n) of a non-negative int, as the sequence of its characters
Str(n) == IF n < 10 THEN <<Digit(n)>> ELSE Str(n \div 10) \o <<Digit(n % 10)>>

\* sub in msg, for sequences of characters and literal pieces
Contains(msg, sub) ==
    \E i \in 1..(Len(msg) - Len(sub) + 1) : SubSeq(msg, i, i + Len(sub) - 1) = sub

\* lst[start:], a slice with a start and no stop: a negative start counts
\* from the end, and the start is clamped to 0..len(lst)
SliceFrom(lst, start) ==
    LET n == Len(lst)
        s == IF start < 0 THEN start + n ELSE start
        from == IF s < 0 THEN 0 ELSE IF s > n THEN n ELSE s
    IN  SubSeq(lst, from + 1, n)

\* datetime.isoformat(): a string, never equal to the datetime it renders
Isoformat(now) == [iso |-> now]

-----------------------------------------------------------------------------
(* Inputs *)

Kinds == {"cpu", "memory", "disk", "temperature"}

KindSeq == <<"cpu", "memory", "disk", "temperature">>

\* clock readings: the start, inside the window, its last second, its end
\* and past it
Times == {0, 60, 300, 301}

\* clock readings a whole window apart
CoarseTimes == {0, cooldown_period}

\* the handlers of the repository: EmailNotifier.send_alert and
\* TelegramNotifier.send_alert
HandlerIds == {"email", "telegram"}

\* the built-in defaults of load_thresholds
DefaultThresholds ==
    [cpu |-> [threshold |-> 90, enabled |-> TRUE],
     memory |-> [threshold |-> 80, enabled |-> TRUE],
     disk |-> [threshold |-> 85, enabled |-> TRUE],
     temperature |-> [threshold |-> 80, enabled |-> FALSE]]

\* a thresholds.json holding only the cpu entry
CpuOnlyThresholds == [cpu |-> [threshold |-> 90, enabled |-> TRUE]]

\* a thresholds.json with enabled entries that have no "threshold" field
NoLimitThresholds ==
    [cpu |-> [threshold |-> 90, enabled |-> TRUE],
     memory |-> [enabled |-> TRUE],
     disk |-> [enabled |-> TRUE]]

\* a thresholds.json whose cpu entry is switched off and has no "threshold"
\* field
CpuOffNoLimitThresholds ==
    [cpu |-> [enabled |-> FALSE],
     memory |-> [threshold |-> 80, enabled |-> TRUE],
     disk |-> [threshold |-> 85, enabled |-> TRUE]]

\* A thresholds.json that enables the i-th kind alone; the kind d places
\* after it is switched off by a missing entry (d = 1), by enabled = false
\* (d = 2) or by a missing "enabled" field (d = 3).
OnlyEnabled(i) ==
    LET d(j) == (j - i + 4) % 4
    IN  [k \in {KindSeq[j] : j \in {n \in 1..4 : d(n) # 1}} |->
            LET j == CHOOSE n \in 1..4 : KindSeq[n] = k
                limit == DefaultThresholds[k].threshold
            IN  CASE d(j) = 0 -> [threshold |-> limit, enabled |-> TRUE]
                  [] d(j) = 2 -> [threshold |-> limit, enabled |-> FALSE]
                  [] d(j) = 3 -> [threshold |-> limit]]

\* what load_thresholds returns: the defaults (no file), {} (invalid JSON),
\* or the content of the file
LoadedThresholds ==
    {DefaultThresholds, EmptyDict, CpuOnlyThresholds, NoLimitThresholds}
        \cup {OnlyEnabled(i) : i \in 1..4}

\* The thresholds.json at config_path: not there, there with text that is
\* not JSON, or there with a JSON object.
AbsentFile == [state |-> "absent", content |-> EmptyDict]

InvalidFile == [state |-> "invalid", content |-> EmptyDict]

JsonFile(content) == [state |-> "json", content |-> content]

\* the files an AlertManager is constructed on
ConfigFiles ==
    {AbsentFile, InvalidFile}
        \cup {JsonFile(t) : t \in {CpuOnlyThresholds, NoLimitThresholds}
                                    \cup {OnlyEnabled(i) : i \in 1..4}}

CpuValues == {95, 96, 97}

\* cpu.get(): {"total": percent, ...}; the key is missing in an error reading
CpuData == {[total |-> v] : v \in CpuValues} \cup {EmptyDict}

\* one reading over the default limit, and the error reading
CoarseCpuData == {[total |-> 95], EmptyDict}

MemoryValues == {50, 95}

\* memory.get(): {"ram": {"percent": ...}, ...}
MemoryData == {[ram |-> [percent |-> v]] : v \in MemoryValues} \cup {[ram |-> EmptyDict]}

RootAt90 == [mountpoint |-> "/", percent |-> 90]

HomeAt50 == [mountpoint |-> "/home", percent |-> 50]

HomeAt95 == [mountpoint |-> "/home", percent |-> 95]

\* disk.get(): {"partitions": [{"mountpoint": ..., "percent": ...}, ...]}
DiskData ==
    {[partitions |-> ps] :
        ps \in {<<RootAt90, HomeAt50>>, <<RootAt90, HomeAt95>>,
                <<[mountpoint |-> "/boot"]>>}}
    \cup {EmptyDict}

\* sensors.get(): {"temperatures": {name: [entry, ...]}}: the items of the
\* dict in its order, a value being a list of entries or something else
\* ({"info": "Temperature sensors not available"})
SensorData ==
    {[temperatures |-> <<[name |-> "coretemp", is_list |-> TRUE, entries |-> es]>>] :
        es \in {<<[label |-> "Core 0", current |-> 85]>>, <<[current |-> 85]>>,
                <<[label |-> "Core 0"]>>}}
    \cup {[temperatures |-> <<[name |-> "info", is_list |-> FALSE, entries |-> <<>>]>>],
          EmptyDict}

\* the snapshots the loops hand to check_all: cpu, memory and disk readings
\* (Dashboard.generate_content, monitor_with_alerts.main), a sensors
\* reading alone, or nothing
Snapshots ==
    {[cpu |-> [total |-> c], memory |-> [ram |-> [percent |-> m]],
      disk |-> [partitions |-> ps]] :
        c \in {50, 95}, m \in {50, 95},
        ps \in {<<RootAt90, HomeAt50>>, <<RootAt90, HomeAt95>>}}
    \cup {[sensors |-> [temperatures |->
              <<[name |-> "coretemp", is_list |-> TRUE,
                 entries |-> <<[label |-> "Core 0", current |-> 85]>>]>>]],
          EmptyDict}

\* Readings at the default limits and one above them
LimitCpuData == {[total |-> v] : v \in {90, 91}}

LimitMemoryData == {[ram |-> [percent |-> v]] : v \in {80, 81}}

RootAt85 == [mountpoint |-> "/", percent |-> 85]

HomeAt86 == [mountpoint |-> "/home", percent |-> 86]

LimitDiskData == {[partitions |-> ps] : ps \in {<<RootAt85>>, <<RootAt85, HomeAt86>>}}

LimitSensorData ==
    {[temperatures |-> <<[name |-> "coretemp", is_list |-> TRUE,
                          entries |-> <<[label |-> "Core 0", current |-> v]>>]>>] :
        v \in {80, 81}}

LimitSnapshots ==
    {[cpu |-> c, memory |-> m, disk |-> d, sensors |-> t] :
        c \in LimitCpuData, m \in LimitMemoryData,
        d \in {[partitions |-> <<RootAt85, HomeAt86>>]}, t \in LimitSensorData}

-----------------------------------------------------------------------------
(* AlertManager *)

\* Faulty variant: no defaults, an absent file loads as {}.
load_thresholds_no_defaults(file) ==
    IF file.state = "json" THEN file.content ELSE EmptyDict

\* Faulty variant: invalid JSON falls back to the defaults.
load_thresholds_defaults_on_invalid(file) ==
    IF file.state = "json" THEN file.content ELSE DefaultThresholds

\* load_thresholds(): json.load of the file; the defaults on
\* FileNotFoundError; {} (after a print) on json.JSONDecodeError
load_thresholds(file) ==
    IF file.state = "absent" THEN DefaultThresholds
    ELSE IF file.state = "invalid" THEN EmptyDict
    ELSE file.content

\* save_thresholds(): open(config_path, 'w') truncates the file and
\* json.dump writes the config; an Exception of either is caught and
\* printed.  The file afterwards, for an open that fails ("open_failed"), a
\* dump that fails after the truncation ("dump_failed"), or no failure.
save_thresholds(file, th, outcome) ==
    CASE outcome = "open_failed" -> file
      [] outcome = "dump_failed" -> InvalidFile
      [] outcome = "written" -> JsonFile(th)

\* Faulty variant: the try is around the loop, the first handler that raises
\* ends the dispatch and its exception leaves _trigger_alert.
RECURSIVE DispatchAbortOnError(_, _, _, _)
DispatchAbortOnError(handlers, failing, args, i) ==
    IF i > Len(handlers) THEN [inv |-> <<>>, raised |-> "none"]
    ELSE IF handlers[i] \in failing
         THEN [inv |-> <<[handler |-> handlers[i], args |-> args, outcome |-> "raise"]>>,
               raised |-> "HandlerError"]
         ELSE LET rest == DispatchAbortOnError(handlers, failing, args, i + 1)
              IN  [inv |-> <<[handler |-> handlers[i], args |-> args, outcome |-> "ok"]>>
                             \o rest.inv,
                   raised |-> rest.raised]

\* Faulty variant: the handlers are called last registered first.
RECURSIVE DispatchReversed(_, _, _, _)
DispatchReversed(handlers, failing, args, i) ==
    IF i > Len(handlers) THEN [inv |-> <<>>, raised |-> "none"]
    ELSE LET rest == DispatchReversed(handlers, failing, args, i + 1)
         IN  [inv |-> rest.inv \o
                      <<[handler |-> handlers[i], args |-> args,
                         outcome |-> IF handlers[i] \in failing THEN "raise" ELSE "ok"]>>,
              raised |-> "none"]

\* Ctrl+C arrives while a handler runs: KeyboardInterrupt is raised in the
\* first handler the operation calls
Interrupted(failing) == "KeyboardInterrupt" \in failing

\* The loop over self.alert_handlers of one fired alert, from position i:
\* the handlers are called in list order; an Exception of a handler is
\* caught and printed, and the loop goes on.  KeyboardInterrupt is not an
\* Exception: it leaves the loop and _trigger_alert.
RECURSIVE Dispatch(_, _, _, _)
Dispatch(handlers, failing, args, i) ==
    IF i > Len(handlers) THEN [inv |-> <<>>, raised |-> "none"]
    ELSE IF Interrupted(failing)
    THEN [inv |-> <<[handler |-> handlers[i], args |-> args, outcome |-> "interrupt"]>>,
          raised |-> "KeyboardInterrupt"]
    ELSE LET rest == Dispatch(handlers, failing, args, i + 1)
         IN  [inv |-> <<[handler |-> handlers[i], args |-> args,
                         outcome |-> IF handlers[i] \in failing THEN "raise" ELSE "ok"]>>
                      \o rest.inv,
              raised |-> rest.raised]

\* Faulty variant: the window is closed at its end (<= for <).
InCooldownInclusive(last, alert_type, now) ==
    /\ alert_type \in DOMAIN last
    /\ now - last[alert_type] <= cooldown_period

\* Faulty variant: a clock reading before the last alert counts as outside
\* the window.
InCooldownForwardOnly(last, alert_type, now) ==
    /\ alert_type \in DOMAIN last
    /\ now - last[alert_type] >= 0
    /\ now - last[alert_type] < cooldown_period

\* Faulty variant: no cooldown.
InCooldownNever(last, alert_type, now) == FALSE

\* the cooldown test of _trigger_alert: the kind has fired, less than
\* cooldown_period before now
InCooldown(last, alert_type, now) ==
    /\ alert_type \in DOMAIN last
    /\ now - last[alert_type] < cooldown_period

\* The state one AlertManager call works on: the manager's fields, the
\* _trigger_alert calls made so far (cands) and the exception that ended it.
Frame(handlers, last, history) ==
    [handlers |-> handlers, last_alerts |-> last, alert_history |-> history,
     cands |-> <<>>, raised |-> "none"]

\* Faulty variant: a suppressed candidate restarts the window of its kind.
TriggerAlertStampsSuppressed(f, alert_type, message, value, nows, failing) ==
    LET now == nows[Len(f.cands) + 1]
        record == [type |-> alert_type, message |-> message, value |-> value,
                   timestamp |-> Isoformat(now)]
        d == Dispatch(f.handlers, failing, <<alert_type, message, value>>, 1)
    IN  IF InCooldown(f.last_alerts, alert_type, now)
        THEN [f EXCEPT !.last_alerts = Put(@, alert_type, now),
                       !.cands = Append(@, [kind |-> alert_type, value |-> value,
                                            now |-> now, fired |-> FALSE,
                                            inv |-> <<>>])]
        ELSE [f EXCEPT !.last_alerts = Put(@, alert_type, now),
                       !.alert_history = Append(@, record),
                       !.cands = Append(@, [kind |-> alert_type, value |-> value,
                                            now |-> now, fired |-> TRUE,
                                            inv |-> d.inv]),
                       !.raised = d.raised]

\* Faulty variant: the alert is committed only when a handler took it.
TriggerAlertCommitsOnDelivery(f, alert_type, message, value, nows, failing) ==
    LET now == nows[Len(f.cands) + 1]
        record == [type |-> alert_type, message |-> message, value |-> value,
                   timestamp |-> Isoformat(now)]
        d == Dispatch(f.handlers, failing, <<alert_type, message, value>>, 1)
        delivered == \E n \in 1..Len(d.inv) : d.inv[n].outcome = "ok"
    IN  IF InCooldown(f.last_alerts, alert_type, now)
        THEN [f EXCEPT !.cands = Append(@, [kind |-> alert_type, value |-> value,
                                            now |-> now, fired |-> FALSE,
                                            inv |-> <<>>])]
        ELSE [f EXCEPT !.last_alerts = IF delivered THEN Put(@, alert_type, now) ELSE @,
                       !.alert_history = IF delivered THEN Append(@, record) ELSE @,
                       !.cands = Append(@, [kind |-> alert_type, value |-> value,
                                            now |-> now, fired |-> TRUE,
                                            inv |-> d.inv]),
                       !.raised = d.raised]

\* _trigger_alert(alert_type, message, value); nows[i] is what datetime.now()
\* returns in the i-th _trigger_alert call of the operation
TriggerAlert(f, alert_type, message, value, nows, failing) ==
    LET now == nows[Len(f.cands) + 1]
        record == [type |-> alert_type, message |-> message, value |-> value,
                   timestamp |-> Isoformat(now)]
        d == Dispatch(f.handlers, failing, <<alert_type, message, value>>, 1)
    IN  IF InCooldown(f.last_alerts, alert_type, now)
        THEN [f EXCEPT !.cands = Append(@, [kind |-> alert_type, value |-> value,
                                            now |-> now, fired |-> FALSE,
                                            inv |-> <<>>])]
        ELSE [f EXCEPT !.last_alerts = Put(@, alert_type, now),
                       !.alert_history = Append(@, record),
                       !.cands = Append(@, [kind |-> alert_type, value |-> value,
                                            now |-> now, fired |-> TRUE,
                                            inv |-> d.inv]),
                       !.raised = d.raised]

\* Faulty variant: "enabled" defaults to True.
EnabledByDefault(th, kind) == Get(Get(th, kind, EmptyDict), "enabled", TRUE)

\* self.thresholds.get(kind, {}).get("enabled", False)
Enabled(th, kind) == Get(Get(th, kind, EmptyDict), "enabled", FALSE)

\* self.thresholds[kind]["threshold"] raises KeyError when the entry or the
\* field is absent
HasThreshold(th, kind) == kind \in DOMAIN th /\ "threshold" \in DOMAIN th[kind]

\* Faulty variant: the message leaves the threshold out.
CpuMessageNoThreshold(current, threshold) ==
    <<"CPU usage is ">> \o Str(current) \o <<"%">>

\* f"CPU usage is {current}% (threshold: {threshold}%)"
CpuMessage(current, threshold) ==
    <<"CPU usage is ">> \o Str(current) \o <<"% (threshold: ">> \o Str(threshold)
        \o <<"%)">>

\* check_cpu(cpu_data) on frame f
check_cpu(f, th, cpu_data, nows, failing) ==
    IF ~Enabled(th, "cpu") THEN f
    ELSE IF ~HasThreshold(th, "cpu") THEN [f EXCEPT !.raised = "KeyError"]
    ELSE LET threshold == th["cpu"]["threshold"]
             current == Get(cpu_data, "total", 0)
         IN  IF current > threshold
             THEN TriggerAlert(f, "cpu", CpuMessage(current, threshold), current,
                               nows, failing)
             ELSE f

MemoryMessage(current, threshold) ==
    <<"Memory usage is ">> \o Str(current) \o <<"% (threshold: ">> \o Str(threshold)
        \o <<"%)">>

\* check_memory(memory_data) on frame f
check_memory(f, th, memory_data, nows, failing) ==
    IF ~Enabled(th, "memory") THEN f
    ELSE IF ~HasThreshold(th, "memory") THEN [f EXCEPT !.raised = "KeyError"]
    ELSE LET threshold == th["memory"]["threshold"]
             current == Get(Get(memory_data, "ram", EmptyDict), "percent", 0)
         IN  IF current > threshold
             THEN TriggerAlert(f, "memory", MemoryMessage(current, threshold), current,
                               nows, failing)
             ELSE f

DiskMessage(mountpoint, current, threshold) ==
    <<"Disk usage on ", mountpoint, " is ">> \o Str(current) \o <<"% (threshold: ">>
        \o Str(threshold) \o <<"%)">>

\* Faulty variant: the cooldown key is the partition, not the kind.
RECURSIVE check_disk_loop_by_partition(_, _, _, _, _, _)
check_disk_loop_by_partition(f, threshold, partitions, i, nows, failing) ==
    IF i > Len(partitions) \/ f.raised # "none" THEN f
    ELSE LET current == Get(partitions[i], "percent", 0)
             mountpoint == Get(partitions[i], "mountpoint", "")
             g == IF current > threshold
                  THEN TriggerAlert(f, "disk" \o mountpoint,
                                    DiskMessage(mountpoint, current, threshold),
                                    current, nows, failing)
                  ELSE f
         IN  check_disk_loop_by_partition(g, threshold, partitions, i + 1, nows, failing)

\* Faulty variant: a partition at the limit triggers (>= for >).
RECURSIVE check_disk_loop_at_or_over(_, _, _, _, _, _)
check_disk_loop_at_or_over(f, threshold, partitions, i, nows, failing) ==
    IF i > Len(partitions) \/ f.raised # "none" THEN f
    ELSE LET current == Get(partitions[i], "percent", 0)
             mountpoint == Get(partitions[i], "mountpoint", "")
             g == IF current >= threshold
                  THEN TriggerAlert(f, "disk", DiskMessage(mountpoint, current, threshold),
                                    current, nows, failing)
                  ELSE f
         IN  check_disk_loop_at_or_over(g, threshold, partitions, i + 1, nows, failing)

\* the loop of check_disk over the partitions from position i
RECURSIVE check_disk_loop(_, _, _, _, _, _)
check_disk_loop(f, threshold, partitions, i, nows, failing) ==
    IF i > Len(partitions) \/ f.raised # "none" THEN f
    ELSE LET current == Get(partitions[i], "percent", 0)
             mountpoint == Get(partitions[i], "mountpoint", "")
             g == IF current > threshold
                  THEN TriggerAlert(f, "disk", DiskMessage(mountpoint, current, threshold),
                                    current, nows, failing)
                  ELSE f
         IN  check_disk_loop(g, threshold, partitions, i + 1, nows, failing)

\* check_disk(disk_data) on frame f
check_disk(f, th, disk_data, nows, failing) ==
    IF ~Enabled(th, "disk") THEN f
    ELSE IF ~HasThreshold(th, "disk") THEN [f EXCEPT !.raised = "KeyError"]
    ELSE check_disk_loop(f, th["disk"]["threshold"], Get(disk_data, "partitions", <<>>),
                         1, nows, failing)

TemperatureMessage(label, current, threshold) ==
    <<"Temperature ", label, " is ">> \o Str(current) \o <<"C (threshold: ">>
        \o Str(threshold) \o <<"C)">>

\* the inner loop of check_temperature over the entries of one sensor
RECURSIVE check_entries_loop(_, _, _, _, _, _, _)
check_entries_loop(f, threshold, sensor_name, entries, j, nows, failing) ==
    IF j > Len(entries) \/ f.raised # "none" THEN f
    ELSE LET current == Get(entries[j], "current", 0)
             label == Get(entries[j], "label", sensor_name)
             g == IF current > threshold
                  THEN TriggerAlert(f, "temperature",
                                    TemperatureMessage(label, current, threshold),
                                    current, nows, failing)
                  ELSE f
         IN  check_entries_loop(g, threshold, sensor_name, entries, j + 1, nows, failing)

\* the outer loop of check_temperature over temps.items()
RECURSIVE check_temperature_loop(_, _, _, _, _, _)
check_temperature_loop(f, threshold, temps, i, nows, failing) ==
    IF i > Len(temps) \/ f.raised # "none" THEN f
    ELSE LET g == IF temps[i].is_list
                  THEN check_entries_loop(f, threshold, temps[i].name, temps[i].entries,
                                          1, nows, failing)
                  ELSE f
         IN  check_temperature_loop(g, threshold, temps, i + 1, nows, failing)

\* check_temperature(sensor_data) on frame f
check_temperature(f, th, sensor_data, nows, failing) ==
    IF ~Enabled(th, "temperature") THEN f
    ELSE IF ~HasThreshold(th, "temperature") THEN [f EXCEPT !.raised = "KeyError"]
    ELSE check_temperature_loop(f, th["temperature"]["threshold"],
                                Get(sensor_data, "temperatures", <<>>), 1, nows, failing)

\* one step of check_all: a check runs when its key is in system_data and
\* no earlier check raised
CheckIfPresent(f, present, g) == IF present /\ f.raised = "none" THEN g ELSE f

\* check_all(system_data) on frame f
check_all(f, th, system_data, nows, failing) ==
    LET f1 == CheckIfPresent(f, "cpu" \in DOMAIN system_data,
                             check_cpu(f, th, Get(system_data, "cpu", EmptyDict),
                                       nows, failing))
        f2 == CheckIfPresent(f1, "memory" \in DOMAIN system_data,
                             check_memory(f1, th, Get(system_data, "memory", EmptyDict),
                                          nows, failing))
        f3 == CheckIfPresent(f2, "disk" \in DOMAIN system_data,
                             check_disk(f2, th, Get(system_data, "disk", EmptyDict),
                                        nows, failing))
    IN  CheckIfPresent(f3, "sensors" \in DOMAIN system_data,
                       check_temperature(f3, th, Get(system_data, "sensors", EmptyDict),
                                         nows, failing))

\* get_alert_history(limit): self.alert_history[-limit:]
get_alert_history(history, limit) == SliceFrom(history, -limit)

-----------------------------------------------------------------------------
(* Operations *)

NoCall == [op |-> "init", arg |-> <<>>, cands |-> <<>>, raised |-> "none", result |-> <<>>]

\* the manager after the call op(arg) that ended in frame f, in a run whose
\* history is kept to bound records
CommitUpTo(bound, op, arg, f) ==
    /\ Len(f.alert_history) <= bound
    /\ alert_history' = f.alert_history
    /\ last_alerts' = f.last_alerts
    /\ call' = [op |-> op, arg |-> arg, cands |-> f.cands, raised |-> f.raised,
                result |-> <<>>]
    /\ UNCHANGED <<thresholds, alert_handlers>>

\* the manager after the call op(arg) that ended in frame f
CommitManager(op, arg, f) == CommitUpTo(MaxHistory, op, arg, f)

\* the call op(arg) made on the manager from outside the loops
Commit(op, arg, f) ==
    /\ CommitManager(op, arg, f)
    /\ UNCHANGED registryVars
    /\ UNCHANGED loaderVars
    /\ UNCHANGED loopVars

\* the readings of datetime.now() in an operation that makes n of them
Clock(T, n) == [1..n -> T]

\* the same reading n times: an operation that takes no time
Instant(T, n) == {[i \in 1..n |-> t] : t \in T}

Self == Frame(alert_handlers, last_alerts, alert_history)

\* the registered handlers that raise in one operation: any of them
Failing == SUBSET {alert_handlers[i] : i \in 1..Len(alert_handlers)}

CheckCpu(D, T, F) ==
    \E cpu_data \in D, nows \in Clock(T, 1), failing \in F :
        Commit("check_cpu", <<cpu_data>>,
               check_cpu(Self, thresholds, cpu_data, nows, failing))

CheckMemory(D, T, F) ==
    \E memory_data \in D, nows \in Clock(T, 1), failing \in F :
        Commit("check_memory", <<memory_data>>,
               check_memory(Self, thresholds, memory_data, nows, failing))

CheckDisk(D, T, F) ==
    \E disk_data \in D, failing \in F :
        \E nows \in Clock(T, Len(Get(disk_data, "partitions", <<>>))) :
            Commit("check_disk", <<disk_data>>,
                   check_disk(Self, thresholds, disk_data, nows, failing))

CheckTemperature(D, T, F) ==
    \E sensor_data \in D, nows \in Clock(T, 1), failing \in F :
        Commit("check_temperature", <<sensor_data>>,
               check_temperature(Self, thresholds, sensor_data, nows, failing))

RECURSIVE EntryCount(_, _)
\* the sensor entries of temps from position i on
EntryCount(temps, i) ==
    IF i > Len(temps) THEN 0 ELSE Len(temps[i].entries) + EntryCount(temps, i + 1)

\* no more _trigger_alert calls than this in check_all(system_data): one for
\* cpu, one for memory, one per partition, one per sensor entry
MostTriggers(system_data) ==
    LET partitions == Get(Get(system_data, "disk", EmptyDict), "partitions", <<>>)
        temps == Get(Get(system_data, "sensors", EmptyDict), "temperatures", <<>>)
    IN  2 + Len(partitions) + EntryCount(temps, 1)

CheckAll(D, T, F) ==
    \E system_data \in D, failing \in F :
        \E nows \in Instant(T, MostTriggers(system_data)) :
            Commit("check_all", <<system_data>>,
                   check_all(Self, thresholds, system_data, nows, failing))

RegisterHandler ==
    \E handler \in HandlerIds :
        /\ Len(alert_handlers) < Cardinality(HandlerIds)
        /\ alert_handlers' = Append(alert_handlers, handler)
        /\ call' = [op |-> "register_handler", arg |-> <<handler>>, cands |-> <<>>,
                    raised |-> "none", result |-> <<>>]
        /\ UNCHANGED <<thresholds, alert_history, last_alerts>>
        /\ UNCHANGED registryVars
        /\ UNCHANGED loaderVars
        /\ UNCHANGED loopVars

\* AlertManager(): __init__ on the file at config_path
Construct ==
    /\ thresholds' = load_thresholds(config_file)
    /\ alert_handlers' = <<>>
    /\ alert_history' = <<>>
    /\ last_alerts' = EmptyDict
    /\ call' = [op |-> "__init__", arg |-> <<config_file>>, cands |-> <<>>,
                raised |-> "none", result |-> <<>>]
    /\ UNCHANGED registryVars
    /\ UNCHANGED loaderVars
    /\ UNCHANGED loopVars

\* load_thresholds() called on the manager: it returns the config, and
\* assigns nothing
LoadThresholds ==
    /\ call' = [op |-> "load_thresholds", arg |-> <<config_file>>, cands |-> <<>>,
                raised |-> "none", result |-> load_thresholds(config_file)]
    /\ UNCHANGED <<thresholds, alert_handlers, alert_history, last_alerts>>
    /\ UNCHANGED registryVars
    /\ UNCHANGED loaderVars
    /\ UNCHANGED loopVars

SaveOutcomes == {"written", "open_failed", "dump_failed"}

\* save_thresholds()
SaveThresholds ==
    \E outcome \in SaveOutcomes :
        /\ config_file' = save_thresholds(config_file, thresholds, outcome)
        /\ call' = [op |-> "save_thresholds", arg |-> <<>>, cands |-> <<>>,
                    raised |-> "none", result |-> <<outcome>>]
        /\ UNCHANGED <<thresholds, alert_handlers, alert_history, last_alerts>>
        /\ UNCHANGED registryVars
        /\ UNCHANGED loaderVars
        /\ UNCHANGED loop

\* Faulty variant: the history is emptied, the cooldown stamps are kept.
ClearHistoryKeepsStamps ==
    /\ alert_history' = <<>>
    /\ call' = [op |-> "clear_history", arg |-> <<>>, cands |-> <<>>,
                raised |-> "none", result |-> <<>>]
    /\ UNCHANGED <<thresholds, alert_handlers, last_alerts>>
    /\ UNCHANGED registryVars
    /\ UNCHANGED loaderVars
    /\ UNCHANGED loopVars

\* clear_history()
ClearHistory ==
    /\ alert_history' = <<>>
    /\ last_alerts' = EmptyDict
    /\ call' = [op |-> "clear_history", arg |-> <<>>, cands |-> <<>>,
                raised |-> "none", result |-> <<>>]
    /\ UNCHANGED <<thresholds, alert_handlers>>
    /\ UNCHANGED registryVars
    /\ UNCHANGED loaderVars
    /\ UNCHANGED loopVars

\* the limits callers pass: none, a few, more than there are records, the
\* default, and a negative one
Limits == (-1..MaxHistory + 1) \cup {DefaultLimit}

GetAlertHistory ==
    \E limit \in Limits :
        /\ call' = [op |-> "get_alert_history", arg |-> <<limit>>, cands |-> <<>>,
                    raised |-> "none",
                    result |-> get_alert_history(alert_history, limit)]
        /\ UNCHANGED <<thresholds, alert_handlers, alert_history, last_alerts>>
        /\ UNCHANGED registryVars
        /\ UNCHANGED loaderVars
        /\ UNCHANGED loopVars

-----------------------------------------------------------------------------
(* ConnectionManager and websocket_endpoint *)

Sockets == 1..MaxSockets

\* No broadcast has run.  A frame holds the locals of broadcast and its
\* set iterator: the size of the set when the loop began (size), the members
\* the iterator has yet to yield (todo), the member whose send_text is
\* awaited (cur), the local set disconnected; and what the call did: the
\* send_text calls per member (tries), the members that got the message
\* (delivered), the set when the call began (orig), its members that no
\* other task removed during the call (stayed), whether another task changed
\* the set during the call (touched).
NoBroadcast ==
    [pc |-> "idle", size |-> 0, todo |-> {}, cur |-> 0, disconnected |-> {},
     tries |-> [w \in Sockets |-> 0], delivered |-> {}, orig |-> {}, stayed |-> {},
     touched |-> FALSE]

Running == broadcast.pc = "sending"

\* Faulty variant: the failed members are left in the set.
PruneNothing(connections, disconnected) == connections

\* for connection in disconnected: self.disconnect(connection)
Prune(connections, disconnected) == connections \ disconnected

\* next(iterator) of the for loop of broadcast, then the loop body up to its
\* await, or the code after the loop.  The set iterator raises RuntimeError
\* when the set's size is not the one the loop began with; it yields its
\* members in an order of its own.
Advance(frame, connections) ==
    IF Cardinality(connections) # frame.size
    THEN /\ broadcast' = [frame EXCEPT !.pc = "raised", !.cur = 0]
         /\ active_connections' = connections
    ELSE IF frame.todo = {}
    THEN /\ broadcast' = [frame EXCEPT !.pc = "returned", !.cur = 0]
         /\ active_connections' = Prune(connections, frame.disconnected)
    ELSE \E connection \in frame.todo :
            /\ broadcast' = [frame EXCEPT !.pc = "sending", !.cur = connection,
                                          !.todo = @ \ {connection},
                                          !.tries[connection] = @ + 1]
            /\ active_connections' = connections

\* broadcast(message) is called: disconnected = set(), the loop begins
BroadcastCall ==
    /\ ~Running
    /\ Advance([NoBroadcast EXCEPT !.size = Cardinality(active_connections),
                                   !.todo = active_connections,
                                   !.orig = active_connections,
                                   !.stayed = active_connections],
               active_connections)
    /\ UNCHANGED endpoint
    /\ UNCHANGED alertVars
    /\ UNCHANGED loaderVars
    /\ UNCHANGED loopVars

\* await connection.send_text(message) returns, or raises and the member is
\* added to disconnected; then the loop goes on
BroadcastResume ==
    /\ Running
    /\ \E ok \in BOOLEAN :
          Advance(IF ok
                  THEN [broadcast EXCEPT !.delivered = @ \cup {broadcast.cur}]
                  ELSE [broadcast EXCEPT !.disconnected = @ \cup {broadcast.cur}],
                  active_connections)
    /\ UNCHANGED endpoint
    /\ UNCHANGED alertVars
    /\ UNCHANGED loaderVars
    /\ UNCHANGED loopVars

\* websocket_endpoint(websocket) starts: manager.connect awaits accept()
EndpointStart ==
    \E websocket \in Sockets :
        /\ endpoint[websocket] = "new"
        /\ endpoint' = [endpoint EXCEPT ![websocket] = "accepting"]
        /\ UNCHANGED <<active_connections, broadcast>>
        /\ UNCHANGED alertVars
        /\ UNCHANGED loaderVars
        /\ UNCHANGED loopVars

\* self.active_connections.add(websocket) while a broadcast may be iterating:
\* the slot of the new member is before or after the iterator's position
AddDuring(frame, websocket) ==
    IF frame.pc = "sending"
    THEN {[frame EXCEPT !.touched = TRUE],
          [frame EXCEPT !.touched = TRUE, !.todo = @ \cup {websocket}]}
    ELSE {frame}

\* self.active_connections.discard(websocket) while a broadcast may be
\* iterating: a member that is gone is not yielded
DiscardDuring(frame, websocket, connections) ==
    IF frame.pc = "sending" /\ websocket \in connections
    THEN [frame EXCEPT !.touched = TRUE, !.todo = @ \ {websocket},
                       !.stayed = @ \ {websocket}]
    ELSE frame

\* accept() returns: connect adds the websocket, the endpoint enters its loop
AcceptReturns ==
    \E websocket \in Sockets :
        /\ endpoint[websocket] = "accepting"
        /\ endpoint' = [endpoint EXCEPT ![websocket] = "streaming"]
        /\ active_connections' = active_connections \cup {websocket}
        /\ broadcast' \in AddDuring(broadcast, websocket)
        /\ UNCHANGED alertVars
        /\ UNCHANGED loaderVars
        /\ UNCHANGED loopVars

\* accept() raises: the exception leaves connect and websocket_endpoint
AcceptRaises ==
    \E websocket \in Sockets :
        /\ endpoint[websocket] = "accepting"
        /\ endpoint' = [endpoint EXCEPT ![websocket] = "closed"]
        /\ UNCHANGED <<active_connections, broadcast>>
        /\ UNCHANGED alertVars
        /\ UNCHANGED loaderVars
        /\ UNCHANGED loopVars

\* send_text in the endpoint's loop raises WebSocketDisconnect or another
\* Exception: manager.disconnect(websocket)
EndpointSendRaises ==
    \E websocket \in Sockets :
        /\ endpoint[websocket] = "streaming"
        /\ endpoint' = [endpoint EXCEPT ![websocket] = "closed"]
        /\ active_connections' = active_connections \ {websocket}
        /\ broadcast' = DiscardDuring(broadcast, websocket, active_connections)
        /\ UNCHANGED alertVars
        /\ UNCHANGED loaderVars
        /\ UNCHANGED loopVars

\* the endpoint's task is cancelled while it waits in accept(), send_text or
\* sleep: asyncio.CancelledError is a BaseException, which neither except
\* clause of websocket_endpoint takes, so it leaves the coroutine
EndpointCancelled ==
    \E websocket \in Sockets :
        /\ endpoint[websocket] \in {"accepting", "streaming"}
        /\ endpoint' = [endpoint EXCEPT ![websocket] = "cancelled"]
        /\ UNCHANGED <<active_connections, broadcast>>
        /\ UNCHANGED alertVars
        /\ UNCHANGED loaderVars
        /\ UNCHANGED loopVars

-----------------------------------------------------------------------------
(* The monitoring loops: Dashboard.run and monitor_with_alerts.main *)

\* No loop has started.  A loop is at "running" between two ticks, at
\* "stopped" after its except KeyboardInterrupt, at "crashed" when another
\* exception left it, at "not_started" when main returned before its loop;
\* steps are the calls of the last tick, in the order they were made;
\* notifier is the EmailNotifier of the program: whether it is configured
\* (enabled), what its test_connection() returns (connects), whether the
\* program called it (tested); shown are the alert totals on the screen.
NoLoop ==
    [program |-> "none", pc |-> "idle", steps |-> <<>>,
     notifier |-> [enabled |-> FALSE, connects |-> FALSE, tested |-> FALSE],
     shown |-> EmptyDict]

\* the notifiers a program can construct: test_connection() is False for
\* one that is not configured
Notifiers ==
    {[enabled |-> e, connects |-> c, tested |-> FALSE] :
        e \in BOOLEAN, c \in BOOLEAN} \ {[enabled |-> FALSE, connects |-> TRUE,
                                          tested |-> FALSE]}

\* the calls of one Dashboard.generate_content with alerts enabled
DashboardSteps ==
    <<"generate_header", "cpu.get", "cpu_panel.render", "memory.get",
      "memory_panel.render", "disk.get", "disk_panel.render", "network.get",
      "network_panel.render", "processes.get", "process_panel.render",
      "check_all", "generate_alerts_panel", "generate_email_status_panel">>

\* the calls of one pass of the while loop of monitor_with_alerts.main
MonitorSteps ==
    <<"cpu.get", "memory.get", "disk.get", "check_all", "create_status_table",
      "get_alert_history", "console.print">>

\* the calls of a tick up to and with its check_all
UpToCheckAll(steps) ==
    SubSeq(steps, 1, CHOOSE i \in 1..Len(steps) : steps[i] = "check_all")

\* what the steps of a tick are to the pipeline
SnapshotSteps == {"cpu.get", "memory.get", "disk.get", "network.get", "processes.get"}

AlertSteps == {"check_all"}

ViewSteps ==
    {"generate_header", "cpu_panel.render", "memory_panel.render", "disk_panel.render",
     "network_panel.render", "process_panel.render", "generate_alerts_panel",
     "generate_email_status_panel", "create_status_table", "console.print"}

BroadcastSteps == {"broadcast"}

\* the system_data the loops build: cpu, memory and disk readings
LoopSnapshots == {d \in Snapshots : DOMAIN d = {"cpu", "memory", "disk"}}

\* Dashboard(enable_alerts=True).run() up to its loop: the email handler is
\* registered when the notifier is configured
StartDashboard ==
    \E notifier \in Notifiers :
        /\ loop.pc = "idle"
        /\ alert_handlers = <<>>
        /\ alert_handlers' = IF notifier.enabled THEN <<"email">> ELSE <<>>
        /\ loop' = [NoLoop EXCEPT !.program = "dashboard", !.pc = "running",
                                  !.notifier = notifier]
        /\ UNCHANGED <<thresholds, alert_history, last_alerts, call>>
        /\ UNCHANGED registryVars
        /\ UNCHANGED loaderVars
        /\ UNCHANGED config_file

\* monitor_with_alerts.main up to its loop: it returns when the notifier is
\* not configured or its test_connection() fails, else registers the handler
StartMonitor ==
    \E notifier \in Notifiers :
        LET ready == notifier.enabled /\ notifier.connects
        IN  /\ loop.pc = "idle"
            /\ alert_handlers = <<>>
            /\ alert_handlers' = IF ready THEN <<"email">> ELSE <<>>
            /\ loop' = [NoLoop EXCEPT
                            !.program = "monitor",
                            !.pc = IF ready THEN "running" ELSE "not_started",
                            !.notifier = [notifier EXCEPT !.tested = notifier.enabled]]
        /\ UNCHANGED <<thresholds, alert_history, last_alerts, call>>
        /\ UNCHANGED registryVars
        /\ UNCHANGED loaderVars
        /\ UNCHANGED config_file

\* what can go wrong in the handlers of one tick: some raise, and Ctrl+C may
\* arrive while one runs
TickFailing == Failing \cup {failing \cup {"KeyboardInterrupt"} : failing \in Failing}

\* the alert totals a finished tick leaves on the screen.  Dashboard: the
\* title of the alerts panel, "Recent Alerts (Total: n)", when there are
\* recent alerts, and the "Sent" row of the email panel when the notifier is
\* configured.  The monitor prints the recent alerts, and no total.
ShownByTick(program, notifier, history) ==
    IF program # "dashboard" THEN EmptyDict
    ELSE LET recent_alerts == get_alert_history(history, PanelLimit)
             title == IF recent_alerts = <<>> THEN EmptyDict
                      ELSE Put(EmptyDict, "Recent Alerts (Total)", Len(recent_alerts))
         IN  IF notifier.enabled
             THEN Put(title, "Sent", Len(get_alert_history(history, DefaultLimit)))
             ELSE title

\* what the except KeyboardInterrupt clause leaves on the screen: the monitor
\* prints "Total alerts sent: n"; the dashboard's Live screen is closed
ShownAtStop(program, history) ==
    IF program = "monitor"
    THEN Put(EmptyDict, "Total alerts sent", Len(get_alert_history(history, DefaultLimit)))
    ELSE EmptyDict

\* One tick of the loop of program, whose calls are steps, in a run with
\* snapshots D, clock readings T, handler failures F and a history of up to
\* bound records: check_all on the snapshot of the tick; an exception of
\* check_all leaves the tick, and the loop: to its except clause for
\* KeyboardInterrupt, out of the program for any other.
TickOn(bound, D, T, F, program, steps) ==
    /\ loop.program = program
    /\ loop.pc = "running"
    /\ \E system_data \in D, failing \in F :
          \E nows \in Instant(T, MostTriggers(system_data)) :
              LET f == check_all(Self, thresholds, system_data, nows, failing)
              IN  /\ CommitUpTo(bound, "check_all", <<system_data>>, f)
                  /\ loop' =
                        IF f.raised = "none"
                        THEN [loop EXCEPT !.steps = steps,
                                          !.shown = ShownByTick(program, loop.notifier,
                                                                f.alert_history)]
                        ELSE IF f.raised = "KeyboardInterrupt"
                        THEN [loop EXCEPT !.pc = "stopped",
                                          !.steps = UpToCheckAll(steps),
                                          !.shown = ShownAtStop(program, f.alert_history)]
                        ELSE [loop EXCEPT !.pc = "crashed",
                                          !.steps = UpToCheckAll(steps)]
    /\ UNCHANGED registryVars
    /\ UNCHANGED loaderVars
    /\ UNCHANGED config_file

\* One tick of the loop of program on any snapshot, with handlers that may
\* raise and a Ctrl+C that may arrive while one runs
Tick(program, steps) ==
    TickOn(MaxHistory, LoopSnapshots, CoarseTimes, TickFailing, program, steps)

\* Dashboard.run: generate_content(layout), then time.sleep
DashboardTick == Tick("dashboard", DashboardSteps)

\* monitor_with_alerts.main: one pass of its while loop
MonitorTick == Tick("monitor", MonitorSteps)

\* Ctrl+C between two ticks: except KeyboardInterrupt
Interrupt ==
    /\ loop.pc = "running"
    /\ loop' = [loop EXCEPT !.pc = "stopped",
                            !.shown = ShownAtStop(loop.program, alert_history)]
    /\ UNCHANGED alertVars
    /\ UNCHANGED loaderVars
    /\ UNCHANGED registryVars
    /\ UNCHANGED config_file

-----------------------------------------------------------------------------
(* Specifications *)

\* AlertManager.__init__
InitManager ==
    /\ alert_handlers = <<>>
    /\ alert_history = <<>>
    /\ last_alerts = EmptyDict
    /\ call = NoCall

\* ConnectionManager.__init__, no websocket_endpoint running
InitRegistry ==
    /\ active_connections = {}
    /\ endpoint = [w \in Sockets |-> "new"]
    /\ broadcast = NoBroadcast

\* no Dashboard.run and no monitor_with_alerts.main has started
InitLoop == loop = NoLoop

\* a directory of plugins: whether the path exists, and what os.listdir gives
NoDirectory == [exists |-> FALSE, files |-> <<>>]

\* PluginLoader() on a path that does not exist, before any operation
NoLoader ==
    [plugin_dir |-> NoDirectory, plugins |-> EmptyDict, op |-> "__init__",
     before |-> EmptyDict, results |-> EmptyDict, raised |-> "none"]

InitLoader == loader = NoLoader

\* an AlertManager constructed on one of the files
Init ==
    /\ config_file \in ConfigFiles
    /\ thresholds = load_thresholds(config_file)
    /\ InitManager
    /\ InitRegistry
    /\ InitLoop
    /\ InitLoader

\* The manager with its handlers, on a clock that moves a window at a time
Next ==
    \/ RegisterHandler
    \/ CheckCpu(CoarseCpuData, CoarseTimes, Failing)
    \/ CheckMemory(MemoryData, CoarseTimes, Failing)
    \/ CheckDisk(DiskData, CoarseTimes, Failing)
    \/ CheckTemperature(SensorData, CoarseTimes, Failing)
    \/ CheckAll(Snapshots, CoarseTimes, Failing)
    \/ GetAlertHistory

Spec == Init /\ [][Next]_vars

\* The cooldown gate on the fine clock, no handler registered
NextGate ==
    \/ CheckCpu(CpuData, Times, {{}})
    \/ CheckMemory(MemoryData, Times, {{}})
    \/ CheckDisk(DiskData, Times, {{}})
    \/ CheckTemperature(SensorData, Times, {{}})
    \/ GetAlertHistory

SpecGate == Init /\ [][NextGate]_vars

\* no thresholds.json
InitDefault ==
    /\ config_file = AbsentFile
    /\ thresholds = DefaultThresholds
    /\ InitManager
    /\ InitRegistry
    /\ InitLoop
    /\ InitLoader

\* The subscriber registry: the endpoint tasks and a task that broadcasts
NextRegistry ==
    \/ EndpointStart
    \/ AcceptReturns
    \/ AcceptRaises
    \/ EndpointSendRaises
    \/ EndpointCancelled
    \/ BroadcastCall
    \/ BroadcastResume

SpecRegistry == InitDefault /\ [][NextRegistry]_vars

\* The threshold store and the life of the history: managers constructed,
\* saved and cleared between checks, no handler registered
NextStore ==
    \/ Construct
    \/ LoadThresholds
    \/ SaveThresholds
    \/ ClearHistory
    \/ CheckCpu(CoarseCpuData, CoarseTimes, {{}})
    \/ CheckMemory(MemoryData, CoarseTimes, {{}})

SpecStore == Init /\ [][NextStore]_vars

\* The evaluators on readings at and next to the limits
NextLimit ==
    \/ CheckCpu(LimitCpuData, CoarseTimes, {{}})
    \/ CheckMemory(LimitMemoryData, CoarseTimes, {{}})
    \/ CheckDisk(LimitDiskData, CoarseTimes, {{}})
    \/ CheckTemperature(LimitSensorData, CoarseTimes, {{}})
    \/ CheckAll(LimitSnapshots, CoarseTimes, {{}})

SpecLimit == Init /\ [][NextLimit]_vars

\* a manager constructed on no file, or on the file with the switched-off
\* cpu entry
InitEntries ==
    /\ config_file \in {AbsentFile, JsonFile(CpuOffNoLimitThresholds)}
    /\ thresholds = load_thresholds(config_file)
    /\ InitManager
    /\ InitRegistry
    /\ InitLoop
    /\ InitLoader

\* check_all on the snapshots of the loops, with handlers
NextEntries ==
    \/ RegisterHandler
    \/ CheckAll(LoopSnapshots, CoarseTimes, Failing)

SpecEntries == InitEntries /\ [][NextEntries]_vars

\* The monitoring loops, from their start to their end
NextLoop ==
    \/ StartDashboard
    \/ StartMonitor
    \/ DashboardTick
    \/ MonitorTick
    \/ Interrupt

SpecLoop == Init /\ [][NextLoop]_vars

-----------------------------------------------------------------------------
(* The cooldown gate: claims C1, C2 *)

\* the time an isoformat timestamp renders
FromIso(timestamp) == timestamp.iso

\* the times at which alerts of a kind fired, oldest first, in a history
FireTimes(history, kind) ==
    LET idx == {i \in 1..Len(history) : history[i].type = kind}
        RECURSIVE Pick(_)
        Pick(i) == IF i > Len(history) THEN <<>>
                   ELSE IF i \in idx THEN <<FromIso(history[i].timestamp)>> \o Pick(i + 1)
                   ELSE Pick(i + 1)
    IN  Pick(1)

\* the candidates among the first n of a call that fired
FiredAmong(cands, n) == {i \in 1..n : cands[i].fired}

\* the fire times of kind before the i-th candidate of the step's call: those
\* of the history the call started on, then those of its earlier candidates
Prior(i) ==
    LET RECURSIVE Earlier(_)
        Earlier(j) == IF j >= i THEN <<>>
                      ELSE IF call'.cands[j].fired /\ call'.cands[j].kind = call'.cands[i].kind
                           THEN <<call'.cands[j].now>> \o Earlier(j + 1)
                           ELSE Earlier(j + 1)
    IN  FireTimes(alert_history, call'.cands[i].kind) \o Earlier(1)

\* the step is an alert check: it made the call that call' describes
IsCheck == call'.op \in {"check_cpu", "check_memory", "check_disk",
                         "check_temperature", "check_all"}

\* every fired candidate of the step appended one record, the others none
GrowsByFired ==
    Len(alert_history') = Len(alert_history)
                            + Cardinality(FiredAmong(call'.cands, Len(call'.cands)))

\* C1: a candidate for a kind that never fired before fires, and a candidate
\* that comes less than cooldown_period (and not before) a fire of its kind
\* is suppressed; the history grows by one record per fired candidate, so by
\* none for the suppressed one.
C1_WithinWindowOneFires ==
    [][IsCheck =>
        /\ GrowsByFired
        /\ \A i \in 1..Len(call'.cands) :
              LET c == call'.cands[i]
                  prior == Prior(i)
              IN  /\ prior = <<>> => c.fired
                  /\ (\E n \in 1..Len(prior) :
                        /\ 0 <= c.now - prior[n]
                        /\ c.now - prior[n] < cooldown_period) => ~c.fired]_vars

\* a candidate was suppressed less than a window after the only fire of its kind
C1_Witness ==
    \E i \in 1..Len(call.cands) :
        LET c == call.cands[i]
            fires == FireTimes(alert_history, c.kind)
        IN  /\ ~c.fired
            /\ Len(fires) = 1
            /\ 0 <= c.now - fires[1]
            /\ c.now - fires[1] < cooldown_period

\* C2: a candidate that comes cooldown_period or more after the last fire of
\* its kind fires, the boundary included, and each fired candidate appends
\* one record: two candidates a window or more apart grow the history by 2.
C2_WindowApartBothFire ==
    [][IsCheck =>
        /\ GrowsByFired
        /\ \A i \in 1..Len(call'.cands) :
              LET c == call'.cands[i]
                  prior == Prior(i)
              IN  (prior # <<>> /\ c.now - prior[Len(prior)] >= cooldown_period)
                      => /\ c.fired
                         /\ SubSeq(FireTimes(alert_history', c.kind), 1, Len(prior) + 1)
                               = Append(prior, c.now)]_vars

\* the history holds two alerts of one kind exactly cooldown_period apart,
\* the second fired by the last call
C2_Witness ==
    \E i \in 1..Len(call.cands) :
        LET c == call.cands[i]
            fires == FireTimes(alert_history, c.kind)
        IN  /\ c.fired
            /\ Len(fires) = 2
            /\ fires[2] = c.now
            /\ fires[2] - fires[1] = cooldown_period

-----------------------------------------------------------------------------
(* The evaluator: claim C3 *)

\* the kind has no entry, no "enabled" field, or enabled = false
SwitchedOff(kind) ==
    \/ kind \notin DOMAIN thresholds
    \/ "enabled" \notin DOMAIN thresholds[kind]
    \/ thresholds[kind].enabled = FALSE

\* C3: for a kind that is switched off (enabled = false, no "enabled" field,
\* or no entry) no alert ever fires: the history holds no record of it, it
\* has no last_alerts entry, and no call made a candidate of it or called a
\* handler for it.
C3_DisabledNeverFires ==
    \A kind \in Kinds :
        SwitchedOff(kind) =>
            /\ \A i \in 1..Len(alert_history) : alert_history[i].type # kind
            /\ kind \notin DOMAIN last_alerts
            /\ \A i \in 1..Len(call.cands) :
                  /\ call.cands[i].kind # kind
                  /\ \A n \in 1..Len(call.cands[i].inv) :
                        call.cands[i].inv[n].args[1] # kind

\* check_temperature has read a sensor over the limit of the temperature
\* entry, which has enabled = false, with a handler registered
C3_Witness ==
    /\ alert_handlers # <<>>
    /\ call.op = "check_temperature"
    /\ "temperature" \in DOMAIN thresholds
    /\ "enabled" \in DOMAIN thresholds["temperature"]
    /\ ~thresholds["temperature"].enabled
    /\ "temperatures" \in DOMAIN call.arg[1]
    /\ \E i \in 1..Len(call.arg[1].temperatures[1].entries) :
          LET entry == call.arg[1].temperatures[1].entries[i]
          IN  /\ "current" \in DOMAIN entry
              /\ entry.current > thresholds["temperature"].threshold

-----------------------------------------------------------------------------
(* The dispatcher: claims C4, C10 *)

\* the record the i-th candidate of the last call appended, for a fired one:
\* the records of the call are the last ones of the history
RecordOf(i) ==
    alert_history[Len(alert_history)
                    - Cardinality({j \in i + 1..Len(call.cands) : call.cands[j].fired})]

\* C4: when an alert fires, a handler that raises stops nothing: all the
\* registered handlers are called, each with the alert's (type, message,
\* value), whatever the outcome of the others, and the exception does not
\* leave the call.
C4_FailingHandlerIsolated ==
    \A i \in 1..Len(call.cands) :
        LET c == call.cands[i]
        IN  c.fired =>
                /\ Len(c.inv) = Len(alert_handlers)
                /\ \A n \in 1..Len(c.inv) :
                      c.inv[n].args = <<c.kind, RecordOf(i).message, RecordOf(i).value>>
                /\ call.raised # "HandlerError"

\* an alert fired with two handlers registered; the first raised and the
\* second completed, and the call returned
C4_Witness ==
    /\ Len(alert_handlers) = 2
    /\ call.raised = "none"
    /\ \E i \in 1..Len(call.cands) :
          /\ call.cands[i].fired
          /\ Len(call.cands[i].inv) = 2
          /\ call.cands[i].inv[1].outcome = "raise"
          /\ call.cands[i].inv[2].outcome = "ok"

\* C10: for a fired alert the handlers called are exactly the registered
\* ones, once each, in registration order, inside the call that fired it; for
\* a suppressed candidate no handler is called.
C10_HandlersOncePerFiredInOrder ==
    \A i \in 1..Len(call.cands) :
        LET c == call.cands[i]
        IN  /\ c.fired => [n \in 1..Len(c.inv) |-> c.inv[n].handler] = alert_handlers
            /\ ~c.fired => c.inv = <<>>

\* with telegram registered before email, one call fired an alert, calling
\* telegram then email, and suppressed a second candidate
C10_Witness ==
    /\ alert_handlers = <<"telegram", "email">>
    /\ \E i, j \in 1..Len(call.cands) :
          /\ call.cands[i].fired
          /\ call.cands[i].inv[1].handler = "telegram"
          /\ call.cands[i].inv[2].handler = "email"
          /\ ~call.cands[j].fired

-----------------------------------------------------------------------------
(* The history: claim C7 *)

Min(a, b) == IF a <= b THEN a ELSE b

\* C7: get_alert_history(limit) returns at most limit records, and they are
\* the last min(limit, len(history)) records of the history in append
\* order, for every limit from 0 up.
C7_RecentReturnsLastLimit ==
    (call.op = "get_alert_history" /\ call.arg[1] >= 0) =>
        LET limit == call.arg[1]
            n == Len(alert_history)
        IN  /\ Len(call.result) <= limit
            /\ call.result = SubSeq(alert_history, n - Min(limit, n) + 1, n)

-----------------------------------------------------------------------------
(* The cpu scenario: claim C8 *)

\* the step calls check_cpu on a reading of total = value, and its
\* _trigger_alert, if it makes one, reads the clock at now
CpuTick(value, now) ==
    /\ call'.op = "check_cpu"
    /\ call'.arg = <<[total |-> value]>>
    /\ \A i \in 1..Len(call'.cands) : call'.cands[i].now = now

\* the manager after tick 1: thresholds {cpu: 90, enabled}, and one record,
\* of cpu = 95 at T = 0
AfterTick1 ==
    /\ thresholds = CpuOnlyThresholds
    /\ Len(alert_history) = 1
    /\ alert_history[1].type = "cpu"
    /\ alert_history[1].value = 95
    /\ FromIso(alert_history[1].timestamp) = 0

\* C8: with thresholds {cpu: limit 90, enabled} and the 300 s cooldown,
\* check_cpu(95) at T = 0 on the new manager leaves 1 record whose message
\* contains "95" and "90"; from there check_cpu(96) at T = 60 leaves 1 record
\* and check_cpu(97) at T = 301 leaves 2.
C8_CpuScenario ==
    [][/\ (thresholds = CpuOnlyThresholds /\ alert_history = <<>> /\ CpuTick(95, 0))
            => /\ Len(call'.cands) = 1
               /\ AfterTick1'
               /\ Contains(alert_history'[1].message, <<"9", "5">>)
               /\ Contains(alert_history'[1].message, <<"9", "0">>)
       /\ (AfterTick1 /\ CpuTick(96, 60))
            => /\ Len(call'.cands) = 1
               /\ alert_history' = alert_history
       /\ (AfterTick1 /\ CpuTick(97, 301))
            => /\ Len(call'.cands) = 1
               /\ Len(alert_history') = 2
               /\ SubSeq(alert_history', 1, 1) = alert_history
               /\ alert_history'[2].value = 97]_vars

\* the end of the scenario: the records of cpu = 95 at T = 0 and of cpu = 97
\* at T = 301, the second appended by the last call
C8_Witness ==
    /\ thresholds = CpuOnlyThresholds
    /\ call.op = "check_cpu"
    /\ call.arg = <<[total |-> 97]>>
    /\ Len(alert_history) = 2
    /\ alert_history[1].value = 95 /\ FromIso(alert_history[1].timestamp) = 0
    /\ alert_history[2].value = 97 /\ FromIso(alert_history[2].timestamp) = 301

-----------------------------------------------------------------------------
(* The disk scenario: claim C9 *)

\* the step calls check_disk on these partitions
DiskTick(partitions) ==
    /\ call'.op = "check_disk"
    /\ call'.arg = <<[partitions |-> partitions]>>

\* disk is enabled with limit 85
DiskAt85 ==
    /\ "disk" \in DOMAIN thresholds
    /\ thresholds["disk"] = [threshold |-> 85, enabled |-> TRUE]

\* a clock reading in the cooldown window that opened at time from
InWindow(from, now) == 0 <= now - from /\ now - from < cooldown_period

\* C9: with disk enabled at limit 85 and no earlier disk alert, check_disk on
\* partitions at 90% and 50% fires exactly one alert, for the 90% partition.
\* A second partition over the limit is suppressed while the window of the
\* first one's alert is open, though it never had an alert itself: in the
\* same call, and in a later call.
C9_OneDiskAlertPerWindow ==
    [][/\ (DiskAt85 /\ alert_history = <<>> /\ DiskTick(<<RootAt90, HomeAt50>>))
            => /\ Len(call'.cands) = 1
               /\ call'.cands[1].fired
               /\ Len(alert_history') = 1
               /\ alert_history'[1].type = "disk"
               /\ alert_history'[1].value = 90
               /\ Contains(alert_history'[1].message, <<"/">>)
       /\ (DiskAt85 /\ alert_history = <<>> /\ DiskTick(<<RootAt90, HomeAt95>>))
            => /\ Len(call'.cands) = 2
               /\ call'.cands[1].fired
               /\ InWindow(call'.cands[1].now, call'.cands[2].now)
                    => /\ ~call'.cands[2].fired
                       /\ Len(alert_history') = 1
                       /\ alert_history'[1].value = 90
       /\ (/\ DiskAt85
           /\ Len(alert_history) = 1
           /\ alert_history[1].type = "disk"
           /\ alert_history[1].value = 90
           /\ DiskTick(<<RootAt90, HomeAt95>>))
            => /\ Len(call'.cands) = 2
               /\ (/\ InWindow(FromIso(alert_history[1].timestamp), call'.cands[1].now)
                   /\ InWindow(FromIso(alert_history[1].timestamp), call'.cands[2].now))
                    => /\ ~call'.cands[1].fired
                       /\ ~call'.cands[2].fired
                       /\ alert_history' = alert_history]_vars

\* after the alert for / at 90%, a later check_disk inside the window read /
\* at 90% and /home at 95% and suppressed both
C9_Witness ==
    /\ DiskAt85
    /\ call.op = "check_disk"
    /\ call.arg = <<[partitions |-> <<RootAt90, HomeAt95>>]>>
    /\ Len(alert_history) = 1
    /\ alert_history[1].value = 90
    /\ Contains(alert_history[1].message, <<"/">>)
    /\ Len(call.cands) = 2
    /\ ~call.cands[1].fired /\ ~call.cands[2].fired
    /\ call.cands[2].value = 95
    /\ InWindow(FromIso(alert_history[1].timestamp), call.cands[2].now)

-----------------------------------------------------------------------------
(* The subscriber registry: claims C5, C6 *)

\* the step ends a broadcast call
BroadcastEnds == broadcast.pc = "sending" /\ broadcast'.pc # "sending"

\* C5: a broadcast over M members, none added or removed by another task
\* meanwhile, in which the send_text of exactly one member raises, returns
\* without raising, has called send_text once for each member, has delivered
\* to the other M-1, and leaves the set as it was less the failed member.
C5_BroadcastPrunesFailedMember ==
    [][(/\ BroadcastEnds
        /\ ~broadcast'.touched
        /\ Cardinality(broadcast'.disconnected) = 1)
          => /\ broadcast'.pc = "returned"
             /\ \A w \in Sockets :
                   broadcast'.tries[w] = IF w \in broadcast'.orig THEN 1 ELSE 0
             /\ broadcast'.delivered = broadcast'.orig \ broadcast'.disconnected
             /\ active_connections' = broadcast'.orig \ broadcast'.disconnected
             /\ Cardinality(active_connections')
                   = Cardinality(broadcast'.orig) - 1]_vars

\* a broadcast over three members with one failed send has returned, and the
\* set holds the other two
C5_Witness ==
    /\ broadcast.pc = "returned"
    /\ ~broadcast.touched
    /\ Cardinality(broadcast.orig) = 3
    /\ Cardinality(broadcast.disconnected) = 1
    /\ Cardinality(broadcast.delivered) = 2
    /\ active_connections = broadcast.delivered

\* C6: whatever connect and disconnect do at the await points of a running
\* broadcast, the broadcast does not raise, and when it returns it has sent
\* to every member that was in the set for the whole call.
C6_BroadcastNeverRaces ==
    /\ broadcast.pc # "raised"
    /\ broadcast.pc = "returned"
          => \A w \in broadcast.stayed : broadcast.tries[w] >= 1

-----------------------------------------------------------------------------
(* The cooldown state: claim C11 *)

\* the candidates of kind that fired in the step's call
FiredOf(kind) ==
    {i \in 1..Len(call'.cands) : call'.cands[i].kind = kind /\ call'.cands[i].fired}

\* the last of a non-empty set of positions
Last(positions) == CHOOSE i \in positions : \A j \in positions : j <= i

-----------------------------------------------------------------------------
(* Errors in a tick: claims C12, C13 *)

\* C12: no error raised in a tick ends the monitoring loop: a loop that has
\* started is running, or has been stopped by KeyboardInterrupt.
C12_OnlyCancellationEndsLoop == loop.pc # "crashed"

\* the last call was one of the evaluators
WasCheck == call.op \in {"check_cpu", "check_memory", "check_disk",
                         "check_temperature", "check_all"}

\* C13: check_all and the four check_* never raise, whatever the snapshot
\* and the loaded configuration.
C13_EvaluatorsNeverRaise == WasCheck => call.raised = "none"

-----------------------------------------------------------------------------
(* The life of the history: claim C14 *)

IsPrefix(a, b) == Len(a) <= Len(b) /\ SubSeq(b, 1, Len(a)) = a

\* C14: the history of a manager is append-only: every operation on it
\* (check_*, get_alert_history, load_thresholds, save_thresholds,
\* clear_history) leaves the history it found as a prefix of the history it
\* leaves.
C14_HistoryAppendOnly ==
    [][call'.op # "__init__" => IsPrefix(alert_history, alert_history')]_vars

-----------------------------------------------------------------------------
(* The threshold store: claims C15, C16 *)

\* cpu 90 enabled, memory 80 enabled, disk 85 enabled, temperature 80
\* disabled, and no other kind
IsBuiltInDefaults(th) ==
    /\ DOMAIN th = {"cpu", "memory", "disk", "temperature"}
    /\ th["cpu"] = [threshold |-> 90, enabled |-> TRUE]
    /\ th["memory"] = [threshold |-> 80, enabled |-> TRUE]
    /\ th["disk"] = [threshold |-> 85, enabled |-> TRUE]
    /\ th["temperature"] = [threshold |-> 80, enabled |-> FALSE]

\* C15: with no thresholds.json, load_thresholds returns exactly the
\* built-in defaults: for the manager as constructed, for a manager
\* constructed later, and for a call of load_thresholds.
C15_AbsentFileLoadsDefaults ==
    /\ (call.op = "init" /\ config_file.state = "absent")
          => IsBuiltInDefaults(thresholds)
    /\ (call.op = "__init__" /\ call.arg[1].state = "absent")
          => IsBuiltInDefaults(thresholds)
    /\ (call.op = "load_thresholds" /\ call.arg[1].state = "absent")
          => IsBuiltInDefaults(call.result)

\* load_thresholds has been called with no file there, after alerts fired
C15_Witness ==
    /\ call.op = "load_thresholds"
    /\ call.arg[1].state = "absent"
    /\ alert_history # <<>>
    /\ call.result["temperature"].enabled = FALSE

\* the manager of the state was constructed on a file that is not JSON, and
\* nothing has been called on it since
ConstructedOnInvalid ==
    \/ call.op = "init" /\ config_file.state = "invalid"
    \/ call.op = "__init__" /\ call.arg[1].state = "invalid"

\* no alert has fired on the manager, and its last call fired and raised
\* nothing
NothingFired ==
    /\ alert_history = <<>>
    /\ last_alerts = EmptyDict
    /\ call.cands = <<>>
    /\ call.raised = "none"

\* C16: a thresholds.json that is not JSON is not fatal: the manager is
\* constructed with the empty config, keeps it (no operation but __init__
\* assigns thresholds), and with the empty config no check fires an alert
\* or raises, whatever the snapshot.
C16_InvalidConfigDisablesAll ==
    /\ [](ConstructedOnInvalid => thresholds = EmptyDict)
    /\ [](thresholds = EmptyDict => NothingFired)
    /\ [][call'.op # "__init__" => thresholds' = thresholds]_vars

\* on a manager constructed on invalid JSON, with a handler registered,
\* check_all has read cpu, memory and disk over the default limits
C16_Witness ==
    /\ config_file.state = "invalid"
    /\ thresholds = EmptyDict
    /\ alert_handlers # <<>>
    /\ call.op = "check_all"
    /\ DOMAIN call.arg[1] = {"cpu", "memory", "disk"}
    /\ call.arg[1]["cpu"]["total"] = 95
    /\ call.arg[1]["memory"]["ram"]["percent"] = 95

-----------------------------------------------------------------------------
(* The comparison with the limit: claim C17 *)

\* the key of system_data that holds the data of a kind
KeyOf(kind) == IF kind = "temperature" THEN "sensors" ELSE kind

\* the data of kind that the last call evaluated: none (an empty dict) when
\* the call was not about the kind
DataOf(kind) ==
    IF call.op = "check_all" THEN Get(call.arg[1], KeyOf(kind), EmptyDict)
    ELSE IF call.op = "check_" \o kind THEN call.arg[1]
    ELSE EmptyDict

RECURSIVE SensorReadings(_, _)
\* the readings of the sensors of temps from position i on, in order
SensorReadings(temps, i) ==
    IF i > Len(temps) THEN <<>>
    ELSE (IF temps[i].is_list
          THEN [j \in 1..Len(temps[i].entries) |-> Get(temps[i].entries[j], "current", 0)]
          ELSE <<>>)
         \o SensorReadings(temps, i + 1)

\* the numbers the last call compared with the limit of kind, in order
Readings(kind) ==
    LET d == DataOf(kind)
    IN  CASE kind = "cpu" -> IF "total" \in DOMAIN d THEN <<d["total"]>> ELSE <<>>
          [] kind = "memory" ->
                IF "ram" \in DOMAIN d /\ "percent" \in DOMAIN d["ram"]
                THEN <<d["ram"]["percent"]>> ELSE <<>>
          [] kind = "disk" ->
                LET ps == Get(d, "partitions", <<>>)
                IN  [i \in 1..Len(ps) |-> Get(ps[i], "percent", 0)]
          [] kind = "temperature" -> SensorReadings(Get(d, "temperatures", <<>>), 1)

\* the values of the candidates of kind of the last call, in order
CandidateValues(kind) ==
    LET RECURSIVE Pick(_)
        Pick(i) == IF i > Len(call.cands) THEN <<>>
                   ELSE IF call.cands[i].kind = kind
                        THEN <<call.cands[i].value>> \o Pick(i + 1)
                        ELSE Pick(i + 1)
    IN  Pick(1)

\* C17: the comparison is strict for every kind: of the readings a call
\* compares with an enabled limit, those above the limit are the candidates,
\* one each and in order; a reading equal to the limit (or below it) is not
\* a candidate.
C17_StrictlyGreaterTriggers ==
    (WasCheck /\ call.raised = "none") =>
        \A kind \in Kinds :
            (Enabled(thresholds, kind) /\ HasThreshold(thresholds, kind)) =>
                LET limit == thresholds[kind]["threshold"]
                    r == Readings(kind)
                    c == CandidateValues(kind)
                IN  /\ \A i \in 1..Len(c) : c[i] > limit /\ c[i] # limit
                    /\ Len(c) = Cardinality({n \in 1..Len(r) : r[n] > limit})
                    /\ (\A n \in 1..Len(r) : r[n] = limit) => c = <<>>

\* check_disk, with disk enabled at 85, has read / at 85% and /home at 86%,
\* and its only candidate is the one of 86
C17_Witness ==
    /\ call.op = "check_disk"
    /\ Enabled(thresholds, "disk")
    /\ thresholds["disk"]["threshold"] = 85
    /\ Readings("disk") = <<85, 86>>
    /\ CandidateValues("disk") = <<86>>

-----------------------------------------------------------------------------
(* The entries of the config: claim C18 *)

\* the configs that differ from th in the enabled flag or in the limit of
\* the entry of kind, and in nothing else
EntryChanges(th, kind) ==
    IF kind \notin DOMAIN th THEN {}
    ELSE {[th EXCEPT ![kind] = Put(@, "enabled", b)] : b \in BOOLEAN}
            \cup {[th EXCEPT ![kind] = Put(@, "threshold", limit)] : limit \in {0, 100}}

\* the candidates of kind that a call made, in order
CandidatesOf(f, kind) ==
    LET RECURSIVE Pick(_)
        Pick(i) == IF i > Len(f.cands) THEN <<>>
                   ELSE IF f.cands[i].kind = kind
                        THEN <<f.cands[i]>> \o Pick(i + 1)
                        ELSE Pick(i + 1)
    IN  Pick(1)

\* two outcomes of a call agree on a kind: the same candidates, and the same
\* cooldown state
SameFor(kind, a, b) ==
    /\ CandidatesOf(a, kind) = CandidatesOf(b, kind)
    /\ (kind \in DOMAIN a.last_alerts) = (kind \in DOMAIN b.last_alerts)
    /\ kind \in DOMAIN a.last_alerts => a.last_alerts[kind] = b.last_alerts[kind]

\* C18: the entries are independent: wherever check_all is called, had the
\* enabled flag or the limit of one kind been another, the call would have
\* made the same candidates for every other kind and left every other kind
\* the same cooldown state.
C18_EntriesIndependent ==
    [][call'.op = "check_all" =>
        \A kind \in Kinds : \A changed \in EntryChanges(thresholds, kind) :
            \A failing \in Failing :
                \A nows \in Instant(CoarseTimes, MostTriggers(call'.arg[1])) :
                    LET a == check_all(Self, thresholds, call'.arg[1], nows, failing)
                        b == check_all(Self, changed, call'.arg[1], nows, failing)
                    IN  \A other \in Kinds \ {kind} : SameFor(other, a, b)]_vars

-----------------------------------------------------------------------------
(* The order of a tick: claims C19, C20 *)

\* the positions of the steps of the last tick that belong to a stage
StepsIn(stage) == {i \in 1..Len(loop.steps) : loop.steps[i] \in stage}

\* every step of the first stage comes before every step of the second
Before(first, second) == \A i \in StepsIn(first), j \in StepsIn(second) : i < j

\* C19: a tick that ran to its end obtained the snapshot, then ran the alert
\* pipeline, then updated the local view, then broadcast the snapshot to
\* the subscriber registry.
C19_TickOrder ==
    (loop.steps # <<>> /\ loop.pc # "crashed") =>
        /\ StepsIn(SnapshotSteps) # {}
        /\ StepsIn(AlertSteps) # {}
        /\ StepsIn(ViewSteps) # {}
        /\ StepsIn(BroadcastSteps) # {}
        /\ Before(SnapshotSteps, AlertSteps)
        /\ Before(AlertSteps, ViewSteps)
        /\ Before(ViewSteps, BroadcastSteps)

\* the alert pipeline of the last tick failed: check_all raised, or a handler
\* raised in the dispatch of an alert
AlertPipelineFailed ==
    \/ call.raised # "none"
    \/ \E i \in 1..Len(call.cands) : \E n \in 1..Len(call.cands[i].inv) :
          call.cands[i].inv[n].outcome = "raise"

\* C20: the two pipelines of a tick are independent: a tick whose alert
\* pipeline failed still delivered its snapshot to the subscribers, and a
\* tick that delivered to the subscribers, with or without a failed delivery,
\* still ran the alert pipeline.
C20_PipelinesIndependent ==
    loop.steps # <<>> =>
        /\ AlertPipelineFailed => StepsIn(BroadcastSteps) # {}
        /\ StepsIn(BroadcastSteps) # {} => StepsIn(AlertSteps) # {}

-----------------------------------------------------------------------------
(* Cancellation: claim C21 *)

\* the steps of a whole tick of the loop's program
WholeTick == IF loop.program = "dashboard" THEN DashboardSteps ELSE MonitorSteps

\* C21: cancellation lets the tick in progress finish: when the loop has
\* been stopped by Ctrl+C, its last tick ran all its steps, and every alert
\* that fired in it was dispatched to all the registered handlers, each of
\* which ran to its end.
C21_CancellationFinishesTick ==
    loop.pc = "stopped" =>
        /\ loop.steps \in {<<>>, WholeTick}
        /\ \A i \in 1..Len(call.cands) :
              call.cands[i].fired =>
                  /\ Len(call.cands[i].inv) = Len(alert_handlers)
                  /\ \A n \in 1..Len(call.cands[i].inv) :
                        call.cands[i].inv[n].outcome \in {"ok", "raise"}

-----------------------------------------------------------------------------
(* Registration: claim C22 *)

\* C22: the handler of a notifier is registered only after its
\* test_connection() returned true: on both startup paths a registered email
\* handler belongs to a notifier that was tested and connects, so a handler
\* whose test fails is never called.
C22_RegisteredOnlyAfterTest ==
    loop.program # "none" =>
        /\ "email" \in {alert_handlers[i] : i \in 1..Len(alert_handlers)}
              => loop.notifier.tested /\ loop.notifier.connects
        /\ \A i \in 1..Len(call.cands) : \A n \in 1..Len(call.cands[i].inv) :
              call.cands[i].inv[n].handler = "email"
                  => loop.notifier.tested /\ loop.notifier.connects

-----------------------------------------------------------------------------
(* The evaluator and an administrative reload or save in another thread:
   claim C23 *)

\* check_cpu(cpu_data) whose two reads of self.thresholds, the flag on line
\* 82 and the limit on line 85, may see different objects: th_flag is the
\* config of the first read and th_limit that of the second
check_cpu_reads(f, th_flag, th_limit, cpu_data, nows, failing) ==
    IF ~Enabled(th_flag, "cpu") THEN f
    ELSE IF ~HasThreshold(th_limit, "cpu") THEN [f EXCEPT !.raised = "KeyError"]
    ELSE LET threshold == th_limit["cpu"]["threshold"]
             current == Get(cpu_data, "total", 0)
         IN  IF current > threshold
             THEN TriggerAlert(f, "cpu", CpuMessage(current, threshold), current,
                               nows, failing)
             ELSE f

\* check_cpu up to the end of line 82: the flag is read, and the thread may be
\* switched out before line 85
CheckCpuReadFlag ==
    /\ call.op # "check_cpu:82"
    /\ \E cpu_data \in CoarseCpuData :
          call' = [op |-> "check_cpu:82", arg |-> <<cpu_data>>, cands |-> <<>>,
                   raised |-> "none", result |-> <<thresholds>>]
    /\ UNCHANGED <<thresholds, alert_handlers, alert_history, last_alerts>>
    /\ UNCHANGED registryVars
    /\ UNCHANGED loaderVars
    /\ UNCHANGED loopVars

\* check_cpu from line 83 on; call.result lists the config each read saw
CheckCpuReadLimit ==
    /\ call.op = "check_cpu:82"
    /\ \E nows \in Clock(CoarseTimes, 1) :
          LET th_flag == call.result[1]
              f == check_cpu_reads(Self, th_flag, thresholds, call.arg[1], nows,
                                   {})
          IN  /\ Len(f.alert_history) <= MaxHistory
              /\ alert_history' = f.alert_history
              /\ last_alerts' = f.last_alerts
              /\ call' = [op |-> "check_cpu", arg |-> call.arg,
                          cands |-> f.cands, raised |-> f.raised,
                          result |-> IF Enabled(th_flag, "cpu")
                                     THEN <<th_flag, thresholds>>
                                     ELSE <<th_flag>>]
    /\ UNCHANGED <<thresholds, alert_handlers>>
    /\ UNCHANGED registryVars
    /\ UNCHANGED loaderVars
    /\ UNCHANGED loopVars

\* the reload: self.thresholds = self.load_thresholds(), as in __init__, run
\* by another thread on the live manager
ReloadThresholds ==
    /\ thresholds' = load_thresholds(config_file)
    /\ UNCHANGED <<alert_handlers, alert_history, last_alerts, call>>
    /\ UNCHANGED registryVars
    /\ UNCHANGED loaderVars
    /\ UNCHANGED loopVars

\* save_thresholds() of another manager on the same path, which holds any of
\* the configs
SaveByOtherManager ==
    /\ \E th \in LoadedThresholds, outcome \in SaveOutcomes :
          config_file' = save_thresholds(config_file, th, outcome)
    /\ UNCHANGED <<alertVars, loop>>
    /\ UNCHANGED registryVars
    /\ UNCHANGED loaderVars

NextReload ==
    \/ CheckCpuReadFlag
    \/ CheckCpuReadLimit
    \/ ReloadThresholds
    \/ SaveByOtherManager

SpecReload == Init /\ [][NextReload]_vars

\* C23: an evaluation that runs while the config is reloaded or modified
\* sees one version of it: the enabled flag and the limit that a check_cpu
\* call read belong to the same config, never a mix.
C23_ReadsOneVersion ==
    (call.op = "check_cpu" /\ Len(call.result) = 2) =>
        call.result[1] = call.result[2]

-----------------------------------------------------------------------------
(* PluginLoader (utils/loader.py): claim C24 *)

\* What the module of a plugin file does: it has a run() that returns, a
\* run() that raises, no run at all, it raises while it is executed, or no
\* import spec can be made for it.
Behaviours == {"runs", "run_raises", "no_run", "import_raises", "no_spec"}

\* a directory entry: file name stem and extension, whether the name starts
\* with "__", and what its module does
File(stem, ext, dunder, behaviour) ==
    [stem |-> stem, ext |-> ext, dunder |-> dunder, behaviour |-> behaviour]

PluginFiles(stem) == {File(stem, "py", FALSE, b) : b \in Behaviours}

\* entries that are no plugins: the package file, and a text file
OtherFiles == <<File("__init__", "py", TRUE, "runs"), File("notes", "txt", FALSE, "runs")>>

Listings ==
    {<<>>} \cup {<<a>> \o OtherFiles : a \in PluginFiles("sample_plugin")}
        \cup {<<a, b>> : a \in PluginFiles("sample_plugin"),
                         b \in PluginFiles("net_plugin")}
        \cup {<<b>> \o OtherFiles \o <<a>> : a \in PluginFiles("sample_plugin"),
                                            b \in PluginFiles("net_plugin")}

Directories == {NoDirectory} \cup {[exists |-> TRUE, files |-> l] : l \in Listings}

\* discover_plugins(): the *.py files whose name does not start with "__"
discover_plugins(plugin_dir) ==
    IF ~plugin_dir.exists THEN <<>>
    ELSE SelectSeq(plugin_dir.files, LAMBDA file : file.ext = "py" /\ ~file.dunder)

\* Faulty variant: a module without run is taken as a plugin.
load_plugin_unvalidated(file) ==
    IF file.behaviour = "no_spec" THEN [error |-> "Failed to load spec"]
    ELSE IF file.behaviour = "import_raises" THEN [error |-> "str(e)"]
    ELSE [name |-> file.stem, module |-> file.behaviour, path |-> file.stem]

\* load_plugin(plugin_path): the plugin record, or {"error": ...}
load_plugin(file) ==
    IF file.behaviour = "no_spec" THEN [error |-> "Failed to load spec"]
    ELSE IF file.behaviour = "import_raises" THEN [error |-> "str(e)"]
    ELSE IF file.behaviour = "no_run" THEN [error |-> "missing run() function"]
    ELSE [name |-> file.stem, module |-> file.behaviour, path |-> file.stem]

RECURSIVE load_all_plugins_stops_at_error(_, _, _)
\* Faulty variant: the first file that fails ends the loop with its error.
load_all_plugins_stops_at_error(plugins, plugin_files, i) ==
    IF i > Len(plugin_files) THEN [plugins |-> plugins, raised |-> "none"]
    ELSE LET result == load_plugin(plugin_files[i])
         IN  IF "error" \notin DOMAIN result
             THEN load_all_plugins_stops_at_error(
                      Put(plugins, result.name, result), plugin_files, i + 1)
             ELSE [plugins |-> plugins, raised |-> "Exception"]

RECURSIVE load_all_plugins_loop(_, _, _)
\* the for loop of load_all_plugins from the i-th discovered file on
load_all_plugins_loop(plugins, plugin_files, i) ==
    IF i > Len(plugin_files) THEN [plugins |-> plugins, raised |-> "none"]
    ELSE LET result == load_plugin(plugin_files[i])
         IN  IF "error" \notin DOMAIN result
             THEN load_all_plugins_loop(Put(plugins, result.name, result),
                                        plugin_files, i + 1)
             ELSE load_all_plugins_loop(plugins, plugin_files, i + 1)

\* load_all_plugins()
load_all_plugins(plugins, plugin_dir) ==
    load_all_plugins_loop(plugins, discover_plugins(plugin_dir), 1)

\* Faulty variant: the exception of run() is not caught.
run_plugin_uncaught(plugins, plugin_name) ==
    IF plugin_name \notin DOMAIN plugins THEN [error |-> "not found"]
    ELSE IF plugins[plugin_name].module # "runs" THEN [raised |-> "Exception"]
    ELSE [value |-> plugin_name]

\* run_plugin(plugin_name): what run() returned, or {"error": ...}
run_plugin(plugins, plugin_name) ==
    IF plugin_name \notin DOMAIN plugins THEN [error |-> "not found"]
    ELSE IF plugins[plugin_name].module # "runs" THEN [error |-> "str(e)"]
    ELSE [value |-> plugin_name]

\* the plugins whose run_plugin does not return: the exception leaves
\* run_all_plugins
Escaped(plugins) ==
    {name \in DOMAIN plugins : "raised" \in DOMAIN run_plugin(plugins, name)}

\* run_all_plugins(): the results by plugin name; when an exception leaves
\* the loop there are none
run_all_plugins(plugins) ==
    IF Escaped(plugins) # {}
    THEN [results |-> EmptyDict, raised |-> "Exception"]
    ELSE [results |-> [name \in DOMAIN plugins |-> run_plugin(plugins, name)],
          raised |-> "none"]

\* PluginLoader(plugin_dir)
ConstructLoader ==
    /\ \E plugin_dir \in Directories :
          loader' = [NoLoader EXCEPT !.plugin_dir = plugin_dir]
    /\ UNCHANGED <<alertVars, registryVars, loopVars>>

\* loader.load_all_plugins()
LoadAllPlugins ==
    /\ LET r == load_all_plugins(loader.plugins, loader.plugin_dir)
       IN  loader' = [loader EXCEPT !.op = "load_all_plugins",
                                    !.before = loader.plugins,
                                    !.plugins = r.plugins,
                                    !.results = EmptyDict,
                                    !.raised = r.raised]
    /\ UNCHANGED <<alertVars, registryVars, loopVars>>

\* loader.run_all_plugins()
RunAllPlugins ==
    /\ LET r == run_all_plugins(loader.plugins)
       IN  loader' = [loader EXCEPT !.op = "run_all_plugins",
                                    !.before = loader.plugins,
                                    !.results = r.results,
                                    !.raised = r.raised]
    /\ UNCHANGED <<alertVars, registryVars, loopVars>>

NextPlugins ==
    \/ ConstructLoader
    \/ LoadAllPlugins
    \/ RunAllPlugins

SpecPlugins == InitDefault /\ [][NextPlugins]_vars

\* the discovered files that load and expose run, by name
Loadable(plugin_dir) ==
    {file.stem : file \in {plugin_dir.files[i] : i \in
        {j \in 1..Len(plugin_dir.files) :
            /\ plugin_dir.files[j].ext = "py"
            /\ ~plugin_dir.files[j].dunder
            /\ plugin_dir.files[j].behaviour \in {"runs", "run_raises"}}}}

\* C24: plugin failures are isolated per unit. load_all_plugins never
\* raises and registers exactly the discovered plugins that load and expose
\* run; run_all_plugins never raises and returns one result per loaded
\* plugin: an {error} for a plugin whose run() raises, and its own result
\* for every other plugin.
C24_PluginFailuresIsolated ==
    /\ loader.raised = "none"
    /\ loader.op = "load_all_plugins" =>
          /\ loader.plugin_dir.exists =>
                DOMAIN loader.plugins = DOMAIN loader.before \cup Loadable(loader.plugin_dir)
          /\ ~loader.plugin_dir.exists => loader.plugins = loader.before
    /\ loader.op = "run_all_plugins" =>
          /\ DOMAIN loader.results = DOMAIN loader.plugins
          /\ \A name \in DOMAIN loader.plugins :
                IF loader.plugins[name].module = "run_raises"
                THEN "error" \in DOMAIN loader.results[name]
                ELSE loader.results[name] = [value |-> name]

\* two plugins were discovered, one failed to load and the other, whose
\* run() raises, was registered and run
C24_Witness ==
    /\ loader.op = "run_all_plugins"
    /\ Len(loader.plugin_dir.files) >= 2
    /\ Cardinality(DOMAIN loader.plugins) = 1
    /\ \E name \in DOMAIN loader.plugins : "error" \in DOMAIN loader.results[name]
    /\ \E i \in 1..Len(loader.plugin_dir.files) :
          loader.plugin_dir.files[i].behaviour = "import_raises"

-----------------------------------------------------------------------------
(* Persistence of the config: claim C25 *)

\* C25: save and load round-trip: once save_thresholds has returned,
\* load_thresholds on the same path yields the config the manager held at
\* the save, also when the save met an error part-way.
C25_SaveLoadRoundTrip ==
    call.op = "save_thresholds" => load_thresholds(config_file) = thresholds

-----------------------------------------------------------------------------
(* The history under the cooldown: claims C26 to C28 *)

\* the clock reading a record's timestamp renders
StampOf(record) == FromIso(record.timestamp)

Distance(a, b) == IF a >= b THEN a - b ELSE b - a

\* C26: no alert storms: any two records of the same kind in alert_history
\* have timestamps at least cooldown_period apart, whatever check_* calls
\* were made and whatever the clock read, also when it went backwards.
C26_NoAlertStorm ==
    \A i \in 1..Len(alert_history) : \A j \in 1..Len(alert_history) :
        (i < j /\ alert_history[i].type = alert_history[j].type) =>
            Distance(StampOf(alert_history[i]), StampOf(alert_history[j]))
                >= cooldown_period

\* two records of one kind are in the history
C26_Witness ==
    \E i \in 1..Len(alert_history) : \E j \in 1..Len(alert_history) :
        /\ i < j
        /\ alert_history[i].type = alert_history[j].type

\* the positions of the records of a kind in the history
RecordsOf(kind) == {i \in 1..Len(alert_history) : alert_history[i].type = kind}

\* C27: last_alerts and the history agree in every reachable state, also
\* after clear_history: a kind is a key of last_alerts exactly when the
\* history holds a record of it, and its entry is the timestamp of the most
\* recent such record.
C27_LastAlertsMatchHistory ==
    \A kind \in Kinds :
        /\ kind \in DOMAIN last_alerts <=> RecordsOf(kind) # {}
        /\ RecordsOf(kind) # {} =>
              last_alerts[kind] = StampOf(alert_history[Last(RecordsOf(kind))])

\* a kind has fired twice, and its entry is the reading of the second time
C27_Witness ==
    /\ call.op # "clear_history"
    /\ \E kind \in Kinds :
          /\ Cardinality(RecordsOf(kind)) = 2
          /\ last_alerts[kind] = cooldown_period

\* every registered handler was called for the candidate, and every one raised
AllHandlersFailed(cand) ==
    /\ Len(cand.inv) > 0
    /\ \A n \in 1..Len(cand.inv) : cand.inv[n].outcome = "raise"

\* the history holds the record of the candidate
Recorded(cand) ==
    \E r \in 1..Len(alert_history) :
        /\ alert_history[r].type = cand.kind
        /\ alert_history[r].value = cand.value
        /\ StampOf(alert_history[r]) = cand.now

\* C28: a fired alert is committed before it is dispatched: when every
\* handler fails, the record stays in the history and the cooldown of the
\* kind has started at the alert's time, and a candidate inside the window
\* of the last fired alert of its kind is neither fired nor dispatched.
C28_CommittedBeforeDispatch ==
    /\ [](WasCheck =>
            \A i \in 1..Len(call.cands) :
                (call.cands[i].fired /\ AllHandlersFailed(call.cands[i])) =>
                    /\ Recorded(call.cands[i])
                    /\ call.cands[i].kind \in DOMAIN last_alerts
                    /\ last_alerts[call.cands[i].kind] >= call.cands[i].now)
    /\ [][IsCheck =>
            \A i \in 1..Len(call'.cands) :
                (/\ Prior(i) # <<>>
                 /\ call'.cands[i].now - Prior(i)[Len(Prior(i))] < cooldown_period)
                    => ~call'.cands[i].fired /\ call'.cands[i].inv = <<>>]_vars

\* a disk alert fired and every handler raised; the next partition over the
\* limit, in the same call and window, was suppressed
C28_Witness ==
    /\ Len(alert_handlers) > 0
    /\ \E i \in 1..Len(call.cands) : \E j \in 1..Len(call.cands) :
          /\ i < j
          /\ call.cands[i].kind = call.cands[j].kind
          /\ call.cands[i].fired
          /\ AllHandlersFailed(call.cands[i])
          /\ Recorded(call.cands[i])
          /\ ~call.cands[j].fired

-----------------------------------------------------------------------------
(* The end of an endpoint: claim C29 *)

\* C29: no subscriber is leaked: once the websocket_endpoint of a websocket
\* has terminated, by a client disconnect, a send error or the cancellation
\* of its task, the websocket is no member of active_connections; and a
\* websocket is a member only after its accept() succeeded.
C29_NoSubscriberLeaked ==
    \A websocket \in Sockets :
        /\ endpoint[websocket] \in {"closed", "cancelled"}
              => websocket \notin active_connections
        /\ websocket \in active_connections
              => endpoint[websocket] \notin {"new", "accepting"}

-----------------------------------------------------------------------------
(* The alert totals on the screen: claim C30 *)

\* the ticks of a long run: every snapshot of the loops, handlers that
\* succeed, a history of up to MaxShown records
DashboardLongTick ==
    TickOn(MaxShown, LoopSnapshots, CoarseTimes, {{}}, "dashboard", DashboardSteps)

MonitorLongTick ==
    TickOn(MaxShown, LoopSnapshots, CoarseTimes, {{}}, "monitor", MonitorSteps)

NextTotals ==
    \/ StartDashboard
    \/ StartMonitor
    \/ DashboardLongTick
    \/ MonitorLongTick
    \/ Interrupt

SpecTotals == InitDefault /\ [][NextTotals]_vars

\* C30: the alert totals on the screen are the number of alerts fired since
\* the program started, however many: the "Total alerts sent" line of the
\* monitor at shutdown, and the "Recent Alerts (Total: n)" title and the
\* "Sent" count of the dashboard after a tick.
C30_TotalsCountAllAlerts ==
    loop.pc \in {"running", "stopped"} =>
        \A total \in DOMAIN loop.shown : loop.shown[total] = Len(alert_history)

=============================================================================
